---- MODULE Spec2Model ----
(***************************************************************************)
(* Model of src/app.py: the bounded-concurrency scraper BaseScraper /      *)
(* PracujPlScraper run by main() under asyncio.run.                        *)
(*                                                                         *)
(* Text is a sequence of glyphs.  A glyph is a one-character string, or    *)
(* one of the fixed phrases the code looks for (the label, the salary      *)
(* suffix, a month name), kept atomic.  Field names are written in ASCII:  *)
(* Tytul stands for the key 'Tytuł'.                                       *)
(***************************************************************************)
EXTENDS Integers, Sequences, FiniteSets, Bags, TLC

\* ------------------------------------------------------------------ bounds
MaxUrls == 3
MaxWorkers == 2
MaxRows == 3      \* records in an aggregate handed to save_to_csv on its own
MaxText == 7      \* glyphs in a text handed to convert_to_iso or clean_salary
MaxBlocks == 2    \* elements of a document handed to parse_page on its own

\* ------------------------------------------------------------------ text
SP == " "
LABEL == "Opublikowana:"
SUFFIX == " zl / mies. (zal. od umowy)"

RECURSIVE LStrip(_)
LStrip(s) == IF s # <<>> /\ Head(s) = SP THEN LStrip(Tail(s)) ELSE s

RECURSIVE RStrip(_)
RStrip(s) ==
  IF s # <<>> /\ s[Len(s)] = SP THEN RStrip(SubSeq(s, 1, Len(s) - 1)) ELSE s

\* str.strip()
Strip(s) == RStrip(LStrip(s))

\* str.replace(g, ''), for a phrase g kept as one glyph
Remove(s, g) == SelectSeq(s, LAMBDA c : c # g)

\* str.split(): the maximal runs of non-blank glyphs
RECURSIVE SplitAcc(_, _, _)
SplitAcc(s, cur, acc) ==
  IF s = <<>> THEN (IF cur = <<>> THEN acc ELSE Append(acc, cur))
  ELSE IF Head(s) = SP
       THEN SplitAcc(Tail(s), <<>>, IF cur = <<>> THEN acc ELSE Append(acc, cur))
       ELSE SplitAcc(Tail(s), Append(cur, Head(s)), acc)

Split(s) == SplitAcc(s, <<>>, <<>>)

polish_months ==
  [m \in {"stycznia", "lutego", "marca", "kwietnia", "maja", "czerwca",
          "lipca", "sierpnia", "wrzesnia", "pazdziernika", "listopada",
          "grudnia"} |->
     CASE m = "stycznia" -> <<"0", "1">>
       [] m = "lutego" -> <<"0", "2">>
       [] m = "marca" -> <<"0", "3">>
       [] m = "kwietnia" -> <<"0", "4">>
       [] m = "maja" -> <<"0", "5">>
       [] m = "czerwca" -> <<"0", "6">>
       [] m = "lipca" -> <<"0", "7">>
       [] m = "sierpnia" -> <<"0", "8">>
       [] m = "wrzesnia" -> <<"0", "9">>
       [] m = "pazdziernika" -> <<"1", "0">>
       [] m = "listopada" -> <<"1", "1">>
       [] m = "grudnia" -> <<"1", "2">>]

\* number of characters a glyph stands for
GlyphLen(g) ==
  IF g \in DOMAIN polish_months THEN 5
  ELSE IF g = LABEL THEN 13
  ELSE IF g = SUFFIX THEN 27
  ELSE IF g = "invalidmonth" THEN 12
  ELSE 1

RECURSIVE CharLen(_)
CharLen(s) == IF s = <<>> THEN 0 ELSE GlyphLen(Head(s)) + CharLen(Tail(s))

\* faulty variant: the day is not padded
NoFill(s) == s

\* str.zfill(2): zeros go in front, but behind a leading sign
ZFill2(s) ==
  IF CharLen(s) >= 2 THEN s
  ELSE IF CharLen(s) = 1
       THEN (IF s[1] \in {"+", "-"} THEN s \o <<"0">> ELSE <<"0">> \o s)
  ELSE <<"0", "0">>

BrakDaty == <<"Brak daty">>
BrakTytulu == <<"Brak tytulu">>
BrakNazwyFirmy == <<"Brak nazwy firmy">>
BrakWynagrodzenia == <<"Brak wynagrodzenia">>
BrakTechnologii == "Brak technologii"
BrakLinku == "Brak linku"

\* PracujPlScraper.convert_to_iso
convert_to_iso(date_str) ==
  IF Strip(date_str) = <<>> THEN BrakDaty
  ELSE LET parts == Split(Strip(Remove(date_str, LABEL)))
       IN IF Len(parts) # 3 THEN BrakDaty
          ELSE LET day == parts[1]
                   month_polish == parts[2]
                   year == parts[3]
               IN IF Len(month_polish) = 1 /\ month_polish[1] \in DOMAIN polish_months
                  THEN year \o <<"-">> \o polish_months[month_polish[1]]
                            \o <<"-">> \o ZFill2(day)
                  ELSE BrakDaty

\* faulty variant: an empty salary text becomes the sentinel
clean_salary_sentinel(salary) ==
  IF Strip(Remove(salary, SUFFIX)) = <<>> THEN BrakWynagrodzenia
  ELSE Strip(Remove(salary, SUFFIX))

\* PracujPlScraper.clean_salary
clean_salary(salary) == Strip(Remove(salary, SUFFIX))


\* ------------------------------------------------------------------ documents
\* A tag found by offer.find(...) is a one-element sequence holding what the
\* code reads from it; a tag that is absent (find returned None) is <<>>.
NoTag == <<>>
Tag(x) == <<x>>

\* The rendered documents a page can yield.  A document is the sequence of
\* its elements; the empty sequence is the empty string.
Filler == [kind |-> "other"]

OfferFull ==
  [kind |-> "offer",
   title |-> Tag(<<SP, "P", "y">>),
   company |-> Tag(<<"A", SP>>),
   date |-> Tag(<<LABEL, SP, "5", SP, "maja", SP, "2", "4">>),
   salary |-> Tag(<<"8", "k", SUFFIX>>),
   techs |-> <<<<"p", SP>>, <<SP, "q">>>>,
   link |-> Tag([href |-> "/o/1"])]

OfferSparse ==
  [kind |-> "offer",
   title |-> NoTag, company |-> NoTag, date |-> NoTag, salary |-> NoTag,
   techs |-> <<>>, link |-> NoTag]

OfferNoHref ==
  [kind |-> "offer",
   title |-> Tag(<<"C">>), company |-> NoTag, date |-> Tag(<<"x">>),
   salary |-> Tag(<<>>), techs |-> <<>>,
   link |-> Tag([class |-> "tiles_cnb3rfy"])]

Docs ==
  { <<>>,
    <<OfferFull, Filler, OfferSparse>>,
    <<OfferSparse, OfferFull>>,
    <<OfferFull, OfferNoHref>> }

FieldNames ==
  {"Tytul", "Firma", "Data_opublikowania", "Wynagrodzenie", "Technologie", "Link"}

\* faulty variant: the Link key is left out when the block has no anchor
job_data_nolink(offer) ==
  [Tytul |-> IF offer.title # NoTag THEN Strip(offer.title[1]) ELSE BrakTytulu,
   Firma |-> IF offer.company # NoTag THEN Strip(offer.company[1]) ELSE BrakNazwyFirmy,
   Data_opublikowania |->
     convert_to_iso(IF offer.date # NoTag THEN offer.date[1] ELSE <<>>),
   Wynagrodzenie |->
     clean_salary(IF offer.salary # NoTag THEN offer.salary[1] ELSE BrakWynagrodzenia),
   Technologie |->
     IF offer.techs # <<>>
     THEN [list |-> [t \in 1..Len(offer.techs) |-> Strip(offer.techs[t])]]
     ELSE [str |-> BrakTechnologii]]
  @@ (IF offer.link # NoTag THEN [Link |-> offer.link[1]["href"]] ELSE <<>>)

\* faulty variant: without tags the technologies are an empty list
job_data_empty_list(offer) ==
  [Tytul |-> IF offer.title # NoTag THEN Strip(offer.title[1]) ELSE BrakTytulu,
   Firma |-> IF offer.company # NoTag THEN Strip(offer.company[1]) ELSE BrakNazwyFirmy,
   Data_opublikowania |->
     convert_to_iso(IF offer.date # NoTag THEN offer.date[1] ELSE <<>>),
   Wynagrodzenie |->
     clean_salary(IF offer.salary # NoTag THEN offer.salary[1] ELSE BrakWynagrodzenia),
   Technologie |->
     [list |-> [t \in 1..Len(offer.techs) |-> Strip(offer.techs[t])]],
   Link |-> IF offer.link # NoTag THEN offer.link[1]["href"] ELSE BrakLinku]

\* parse_page, lines 143-150: the record built for one listing block
job_data(offer) ==
  [Tytul |-> IF offer.title # NoTag THEN Strip(offer.title[1]) ELSE BrakTytulu,
   Firma |-> IF offer.company # NoTag THEN Strip(offer.company[1]) ELSE BrakNazwyFirmy,
   Data_opublikowania |->
     convert_to_iso(IF offer.date # NoTag THEN offer.date[1] ELSE <<>>),
   Wynagrodzenie |->
     clean_salary(IF offer.salary # NoTag THEN offer.salary[1] ELSE BrakWynagrodzenia),
   Technologie |->
     IF offer.techs # <<>>
     THEN [list |-> [t \in 1..Len(offer.techs) |-> Strip(offer.techs[t])]]
     ELSE [str |-> BrakTechnologii],
   Link |-> IF offer.link # NoTag THEN offer.link[1]["href"] ELSE BrakLinku]

\* link_tag['href'] raises KeyError when the anchor has no href attribute
BlockRaises(offer) == offer.link # NoTag /\ "href" \notin DOMAIN offer.link[1]

\* soup.find_all('div', class_=...)
find_offers(html) == SelectSeq(html, LAMBDA e : e.kind = "offer")

\* PracujPlScraper.parse_page: the list of records of a document, or an
\* exception raised while a block is being converted (nothing is returned).
parse_page(html) ==
  LET offers == find_offers(html)
  IN IF \E b \in 1..Len(offers) : BlockRaises(offers[b])
     THEN [raised |-> TRUE, page_data |-> <<>>]
     ELSE [raised |-> FALSE,
           page_data |-> [b \in 1..Len(offers) |-> job_data(offers[b])]]


\* ------------------------------------------------------------------ state
VARIABLES
  urls,         \* self.urls
  max_workers,  \* self.max_workers
  data,         \* self.data, the aggregate
  mainpc,       \* where main() / process_urls / asyncio.run stands
  tasks,        \* the list tasks of process_urls: task ids in creation order
  sem_value,    \* sem._value
  sem_waiters,  \* sem._waiters: ids of the tasks queued in acquire()
  ready,        \* the event loop's FIFO queue of handles to run
  running,      \* who holds the event-loop thread: 0 nobody, -1 main, i task i
  iter_left,    \* handles the loop still runs before asyncio.run sees main fail
  outer,        \* the future of asyncio.gather
  nfinished,    \* gather's count of finished children
  tpc,          \* per task: where the coroutine process_with_semaphore stands
  wpc,          \* per task: where its executor thread stands in fetch_page
  driver,       \* per task: the webdriver of its fetch_page call
  html,         \* per task: what fetch_page returned
  page_data,    \* per task: the local page_data of process_url
  acquired,     \* history: task ids in the order acquire() returned
  appended,     \* history: task ids in the order of their data.extend
  calls,        \* history: per task, how often fetch_page was submitted
  log,          \* per task: the log lines written about its URL
  file,         \* the destination of save_to_csv
  sinklog,      \* the log lines written by save_to_csv
  saved,        \* what the call of save_to_csv did and returned
  fn,           \* the static method or helper applied on its own
  arg,          \* ... its argument
  ret           \* ... and what it returned

vars ==
  <<urls, max_workers, data, mainpc, tasks, sem_value, sem_waiters, ready,
    running, iter_left, outer, nfinished, tpc, wpc, driver, html, page_data,
    acquired, appended, calls, log, file, sinklog, saved, fn, arg, ret>>

sinkvars == <<file, sinklog, saved>>
unitvars == <<fn, arg, ret>>

\* the URL lists tried: up to MaxUrls entries, all different or all the same
Url(i) == <<"url", i>>
UrlLists ==
  {[i \in 1..n |-> Url(i)] : n \in 0..MaxUrls} \cup
  {[i \in 1..n |-> Url(1)] : n \in 0..MaxUrls}
TaskIds == 1..MaxUrls

\* driver.page_source: what the site can serve at the URL u.  Every URL can
\* yield the empty document and a page with a block whose anchor has no href;
\* its page of listings is one of two that differ in the order of their blocks.
PagesAt(u) ==
  {d \in Docs :
     \/ d = <<>>
     \/ \E b \in 1..Len(d) : d[b] = OfferNoHref
     \/ d[1] = (IF u[2] % 2 = 1 THEN OfferFull ELSE OfferSparse)}

None == [ok |-> FALSE, doc |-> <<>>]
Page(d) == [ok |-> TRUE, doc |-> d]
\* `if html:` -- None and the empty string are both false
Truthy(h) == h.ok /\ h.doc # <<>>

\* log lines: logger.info of process_url, logger.error of fetch_page and of
\* save_to_csv, logger.warning and logger.info of save_to_csv
Info(n) == [level |-> "INFO", found |-> n]
Error == [level |-> "ERROR"]
Warning == [level |-> "WARNING"]
DataSaved == [level |-> "INFO", saved |-> TRUE]

\* the destination file, absent; and no save_to_csv call made yet
NoFile == [exists |-> FALSE]
NotSaved == [outcome |-> "none"]

StepOf(i) == [kind |-> "step", id |-> i]
CbOf(i) == [kind |-> "cb", id |-> i]
MainHandle == [kind |-> "main", id |-> 0]

Final == {"done", "failed", "cancelled"}
InSection == {"fetching", "fetched", "check", "parse", "extend", "exit", "raise", "shutdown"}

Init ==
  /\ urls \in UrlLists
  /\ max_workers \in 1..MaxWorkers
  /\ data = <<>>
  /\ mainpc = "dispatch"
  /\ tasks = <<>>
  /\ sem_value = max_workers
  /\ sem_waiters = <<>>
  /\ ready = <<>>
  /\ running = -1
  /\ iter_left = 0
  /\ outer = "pending"
  /\ nfinished = 0
  /\ tpc = [i \in TaskIds |-> "none"]
  /\ wpc = [i \in TaskIds |-> "idle"]
  /\ driver = [i \in TaskIds |-> "none"]
  /\ html = [i \in TaskIds |-> None]
  /\ page_data = [i \in TaskIds |-> <<>>]
  /\ acquired = <<>>
  /\ appended = <<>>
  /\ calls = [i \in TaskIds |-> 0]
  /\ log = [i \in TaskIds |-> <<>>]
  /\ file = NoFile
  /\ sinklog = <<>>
  /\ saved = NotSaved
  /\ fn = "none"
  /\ arg = <<>>
  /\ ret = <<>>

\* ------------------------------------------------------------------ semaphore
RemoveId(q, i) == SelectSeq(q, LAMBDA j : j # i)

\* a waiter whose future is not done: still queued and not cancelled
Eligible(w, tp, cancelling) ==
  {x \in 1..Len(w) : tp[w[x]] = "waiting" /\ ~cancelling}

\* faulty variant: the permit goes to the waiter that queued last
WakeUpLast(st, w, cancelling) ==
  LET el == Eligible(w, st.tp, cancelling)
  IN IF el = {} THEN st
     ELSE LET x == CHOOSE y \in el : \A z \in el : y >= z
              j == w[x]
          IN [val |-> st.val - 1,
              tp |-> [st.tp EXCEPT ![j] = "woken"],
              rd |-> Append(st.rd, StepOf(j))]

\* Semaphore._wake_up_next: hand the permit to the first waiter not yet done
\* and schedule its task.  st = [val, tp, rd].
WakeUpNext(st, w, cancelling) ==
  LET el == Eligible(w, st.tp, cancelling)
  IN IF el = {} THEN st
     ELSE LET x == CHOOSE y \in el : \A z \in el : y <= z
              j == w[x]
          IN [val |-> st.val - 1,
              tp |-> [st.tp EXCEPT ![j] = "woken"],
              rd |-> Append(st.rd, StepOf(j))]

\* faulty variant: the permit is not given back
NoRelease(st, w, cancelling) == st

\* Semaphore.release
Release(st, w, cancelling) ==
  WakeUpNext([st EXCEPT !.val = st.val + 1], w, cancelling)

\* faulty variant: a semaphore that never makes a task wait
NeverLocked(val, w, tp, cancelling) == FALSE

\* Semaphore.locked
Locked(val, w, tp, cancelling) ==
  val = 0 \/ \E x \in 1..Len(w) : ~(cancelling /\ tp[w[x]] = "waiting")

Cancelling == mainpc = "cancelling"

\* faulty variant: a handle is run although another coroutine step is under
\* way (tasks on preemptive threads)
CanRunPreempt(h) ==
  /\ ready # <<>>
  /\ Head(ready) = h
  /\ mainpc \in {"gather", "raised", "cancelling"}
  /\ mainpc = "raised" => iter_left > 0

\* the loop is free to run the handle h now
CanRun(h) ==
  /\ running = 0
  /\ ready # <<>>
  /\ Head(ready) = h
  /\ mainpc \in {"gather", "raised", "cancelling"}
  /\ mainpc = "raised" => iter_left > 0

Ran == IF mainpc = "raised" THEN iter_left - 1 ELSE iter_left


\* ------------------------------------------------------------------ process_urls
\* faulty variant: a URL that occurs again in the list is skipped
RECURSIVE distinct_entries(_)
distinct_entries(us) ==
  IF us = <<>> THEN <<>>
  ELSE <<Head(us)>> \o distinct_entries(SelectSeq(Tail(us), LAMBDA u : u # Head(us)))

\* `for url in self.urls`: the entries the loop visits, duplicates included
url_entries(us) == us

\* one iteration of `for url in self.urls`: create_task schedules the task
ProcessUrlsCreateTask ==
  /\ mainpc = "dispatch"
  /\ running = -1
  /\ Len(tasks) < Len(url_entries(urls))
  /\ LET i == Len(tasks) + 1
     IN /\ tasks' = Append(tasks, i)
        /\ tpc' = [tpc EXCEPT ![i] = "created"]
        /\ ready' = Append(ready, StepOf(i))
  /\ UNCHANGED <<sinkvars, unitvars, calls, log,
                 urls, max_workers, data, mainpc, sem_value, sem_waiters, running,
                 iter_left, outer, nfinished, wpc, driver, html, page_data,
                 acquired, appended>>

\* `await asyncio.gather(*tasks)`: with no task the future is already done and
\* process_urls returns at once; otherwise main leaves the loop to the tasks
ProcessUrlsGather ==
  /\ mainpc = "dispatch"
  /\ running = -1
  /\ Len(tasks) = Len(url_entries(urls))
  /\ IF Len(tasks) = 0
     THEN /\ outer' = "result"
          /\ mainpc' = "returned"
          /\ running' = running
     ELSE /\ outer' = outer
          /\ mainpc' = "gather"
          /\ running' = 0
  /\ UNCHANGED <<sinkvars, unitvars, calls, log,
                 urls, max_workers, data, tasks, sem_value, sem_waiters, ready,
                 iter_left, nfinished, tpc, wpc, driver, html, page_data,
                 acquired, appended>>

\* process_with_semaphore, first step: `async with sem` takes a permit and
\* process_url runs up to its await (the fetch is handed to a new executor
\* thread), or the task queues behind the semaphore
TaskStart(i) ==
  /\ CanRun(StepOf(i))
  /\ ~Cancelling
  /\ tpc[i] = "created"
  /\ IF ~Locked(sem_value, sem_waiters, tpc, FALSE)
     THEN /\ sem_value' = sem_value - 1
          /\ sem_waiters' = sem_waiters
          /\ acquired' = Append(acquired, i)
          /\ tpc' = [tpc EXCEPT ![i] = "fetching"]
          /\ wpc' = [wpc EXCEPT ![i] = "submitted"]
          /\ calls' = [calls EXCEPT ![i] = @ + 1]
     ELSE /\ sem_value' = sem_value
          /\ sem_waiters' = Append(sem_waiters, i)
          /\ acquired' = acquired
          /\ tpc' = [tpc EXCEPT ![i] = "waiting"]
          /\ wpc' = wpc
          /\ calls' = calls
  /\ ready' = Tail(ready)
  /\ iter_left' = Ran
  /\ UNCHANGED <<sinkvars, unitvars, log,
                 urls, max_workers, data, mainpc, tasks, running, outer, nfinished,
                 driver, html, page_data, appended>>

\* acquire() resumes in a waiter that was handed a permit; process_url then
\* runs up to its await
TaskWoken(i) ==
  /\ CanRun(StepOf(i))
  /\ ~Cancelling
  /\ tpc[i] = "woken"
  /\ LET w == RemoveId(sem_waiters, i)
         st == [val |-> sem_value,
                tp |-> [tpc EXCEPT ![i] = "fetching"],
                rd |-> Tail(ready)]
         nx == IF sem_value > 0 THEN WakeUpNext(st, w, FALSE) ELSE st
     IN /\ sem_waiters' = w
        /\ sem_value' = nx.val
        /\ tpc' = nx.tp
        /\ ready' = nx.rd
  /\ acquired' = Append(acquired, i)
  /\ wpc' = [wpc EXCEPT ![i] = "submitted"]
  /\ calls' = [calls EXCEPT ![i] = @ + 1]
  /\ iter_left' = Ran
  /\ UNCHANGED <<sinkvars, unitvars, log,
                 urls, max_workers, data, mainpc, tasks, running, outer, nfinished,
                 driver, html, page_data, appended>>

\* ------------------------------------------------------------------ fetch_page
\* (runs on the task's executor thread, beside the event loop)
\* the try block: driver = self.get_driver() raises and no renderer exists,
\* or the renderer starts and loading, scrolling or reading the page raises
\* (the except clause returns None), or driver.page_source is returned
FetchTry(i) ==
  /\ wpc[i] = "submitted"
  /\ \/ /\ driver' = driver
        /\ html' = [html EXCEPT ![i] = None]
        /\ log' = [log EXCEPT ![i] = Append(@, Error)]
     \/ /\ driver' = [driver EXCEPT ![i] = "active"]
        /\ html' = [html EXCEPT ![i] = None]
        /\ log' = [log EXCEPT ![i] = Append(@, Error)]
     \/ /\ driver' = [driver EXCEPT ![i] = "active"]
        /\ \E d \in PagesAt(urls[i]) : html' = [html EXCEPT ![i] = Page(d)]
        /\ log' = log
  /\ wpc' = [wpc EXCEPT ![i] = "finally"]
  /\ UNCHANGED <<sinkvars, unitvars, calls,
                 urls, max_workers, data, mainpc, tasks, sem_value, sem_waiters,
                 ready, running, iter_left, outer, nfinished, tpc, page_data,
                 acquired, appended>>

\* faulty variant: the renderer is left running
no_quit(d) == d

\* the finally clause: `if driver: driver.quit()`
quit(d) == IF d = "active" THEN "quit" ELSE d

\* finally, then fetch_page returns and the loop is told to resume the task
\* (a task cancelled meanwhile is not resumed by the result)
FetchFinally(i) ==
  /\ wpc[i] = "finally"
  /\ driver' = [driver EXCEPT ![i] = quit(driver[i])]
  /\ wpc' = [wpc EXCEPT ![i] = "finished"]
  /\ IF tpc[i] = "fetching" /\ ~Cancelling
     THEN /\ tpc' = [tpc EXCEPT ![i] = "fetched"]
          /\ ready' = Append(ready, StepOf(i))
     ELSE UNCHANGED <<tpc, ready>>
  /\ UNCHANGED <<sinkvars, unitvars, calls, log,
                 urls, max_workers, data, mainpc, tasks, sem_value, sem_waiters,
                 running, iter_left, outer, nfinished, html, page_data,
                 acquired, appended>>


\* ------------------------------------------------------------------ process_url
\* faulty variant: no guard, so a failed render (None) makes the parser raise
after_fetch_unguarded(h) == IF h.ok THEN "parse" ELSE "raise"

\* `if html:` -- the page is parsed only when fetch_page returned a document
after_fetch(h) == IF Truthy(h) THEN "parse" ELSE "exit"

\* the await returns html; `if html:` decides whether the page is parsed
TaskResume(i) ==
  /\ CanRun(StepOf(i))
  /\ ~Cancelling
  /\ tpc[i] = "fetched"
  /\ running' = i
  /\ ready' = Tail(ready)
  /\ iter_left' = Ran
  /\ tpc' = [tpc EXCEPT ![i] = after_fetch(html[i])]
  /\ UNCHANGED <<sinkvars, unitvars, calls, log,
                 urls, max_workers, data, mainpc, tasks, sem_value, sem_waiters,
                 outer, nfinished, wpc, driver, html, page_data, acquired, appended>>

\* page_data = self.parse_page(html)
TaskParse(i) ==
  /\ running = i
  /\ tpc[i] = "parse"
  /\ LET r == parse_page(html[i].doc)
     IN IF r.raised
        THEN /\ tpc' = [tpc EXCEPT ![i] = "raise"]
             /\ page_data' = page_data
        ELSE /\ tpc' = [tpc EXCEPT ![i] = "extend"]
             /\ page_data' = [page_data EXCEPT ![i] = r.page_data]
  /\ UNCHANGED <<sinkvars, unitvars, calls, log,
                 urls, max_workers, data, mainpc, tasks, sem_value, sem_waiters,
                 ready, running, iter_left, outer, nfinished, wpc, driver, html,
                 acquired, appended>>

\* faulty variant: the page replaces the aggregate
assign(d, p) == p

\* faulty variant: each record of the page is inserted at the front
insert_front(d, p) == [k \in 1..Len(p) |-> p[Len(p) + 1 - k]] \o d

\* list.extend
extend(d, p) == d \o p

\* self.data.extend(page_data), then logger.info with the number of listings
TaskExtend(i) ==
  /\ running = i
  /\ tpc[i] = "extend"
  /\ data' = extend(data, page_data[i])
  /\ appended' = Append(appended, i)
  /\ log' = [log EXCEPT ![i] = Append(@, Info(Len(page_data[i])))]
  /\ tpc' = [tpc EXCEPT ![i] = "exit"]
  /\ UNCHANGED <<sinkvars, unitvars, calls,
                 urls, max_workers, mainpc, tasks, sem_value, sem_waiters, ready,
                 running, iter_left, outer, nfinished, wpc, driver, html,
                 page_data, acquired>>

\* leaving `with ThreadPoolExecutor` and `async with sem`, normally or with the
\* exception of parse_page: the permit is released, the task ends and its
\* done-callback is scheduled
TaskExit(i) ==
  /\ running = i
  /\ tpc[i] \in {"exit", "raise"}
  /\ LET st == [val |-> sem_value,
                tp |-> [tpc EXCEPT ![i] = IF tpc[i] = "raise" THEN "failed" ELSE "done"],
                rd |-> ready]
         nx == Release(st, sem_waiters, FALSE)
     IN /\ sem_value' = nx.val
        /\ tpc' = nx.tp
        /\ ready' = Append(nx.rd, CbOf(i))
  /\ running' = 0
  /\ UNCHANGED <<sinkvars, unitvars, calls, log,
                 urls, max_workers, data, mainpc, tasks, sem_waiters, iter_left,
                 outer, nfinished, wpc, driver, html, page_data, acquired, appended>>

\* ------------------------------------------------------------------ gather
\* faulty variant: the gather completes with its first child
first_finished(n, total) == n >= 1

\* gather: `nfinished == nfuts`, every child has finished
all_finished(n, total) == n = total

\* gather's done-callback of child i (return_exceptions is False): the first
\* child that ended with an exception fails the gather at once; the last child
\* to finish completes it
GatherCallback(i) ==
  /\ CanRun(CbOf(i))
  /\ nfinished' = nfinished + 1
  /\ IF outer # "pending"
     THEN /\ outer' = outer
          /\ ready' = Tail(ready)
     ELSE IF tpc[i] \in {"failed", "cancelled"}
     THEN /\ outer' = "exception"
          /\ ready' = Append(Tail(ready), MainHandle)
     ELSE IF all_finished(nfinished + 1, Len(tasks))
     THEN /\ outer' = "result"
          /\ ready' = Append(Tail(ready), MainHandle)
     ELSE /\ outer' = outer
          /\ ready' = Tail(ready)
  /\ iter_left' = Ran
  /\ UNCHANGED <<sinkvars, unitvars, calls, log,
                 urls, max_workers, data, mainpc, tasks, sem_value, sem_waiters,
                 running, tpc, wpc, driver, html, page_data, acquired, appended>>

\* process_urls resumes from `await asyncio.gather`: it returns to main, or the
\* child's exception propagates out of process_urls and main; the loop then
\* finishes its current iteration before asyncio.run cleans up
ProcessUrlsResume ==
  /\ CanRun(MainHandle)
  /\ mainpc = "gather"
  /\ IF outer = "result"
     THEN /\ mainpc' = "returned"
          /\ running' = -1
          /\ iter_left' = iter_left
     ELSE /\ mainpc' = "raised"
          /\ running' = 0
          /\ iter_left' = Len(ready) - 1
  /\ ready' = Tail(ready)
  /\ UNCHANGED <<sinkvars, unitvars, calls, log,
                 urls, max_workers, data, tasks, sem_value, sem_waiters, outer,
                 nfinished, tpc, wpc, driver, html, page_data, acquired, appended>>


\* ------------------------------------------------------------------ asyncio.run
\* handles of the tasks that task.cancel() has to wake, in task order
RECURSIVE CancelHandles(_, _)
CancelHandles(ts, tp) ==
  IF ts = <<>> THEN <<>>
  ELSE (IF tp[Head(ts)] \in {"waiting", "fetching"} THEN <<StepOf(Head(ts))>> ELSE <<>>)
       \o CancelHandles(Tail(ts), tp)

\* main() has failed: asyncio.run cancels every task that is not done
RunCancelAll ==
  /\ mainpc = "raised"
  /\ running = 0
  /\ mainpc' = "cancelling"
  /\ ready' = ready \o CancelHandles(tasks, tpc)
  /\ iter_left' = 0
  /\ UNCHANGED <<sinkvars, unitvars, calls, log,
                 urls, max_workers, data, tasks, sem_value, sem_waiters, running,
                 outer, nfinished, tpc, wpc, driver, html, page_data, acquired,
                 appended>>

\* CancelledError in a task that is not inside the guarded section: inside
\* acquire() the waiter leaves the queue, and a permit it had already been
\* handed goes back
TaskCancelQueued(i) ==
  /\ CanRun(StepOf(i))
  /\ Cancelling
  /\ tpc[i] \in {"created", "waiting", "woken"}
  /\ sem_waiters' = RemoveId(sem_waiters, i)
  /\ sem_value' = IF tpc[i] = "woken" THEN sem_value + 1 ELSE sem_value
  /\ tpc' = [tpc EXCEPT ![i] = "cancelled"]
  /\ ready' = Append(Tail(ready), CbOf(i))
  /\ UNCHANGED <<sinkvars, unitvars, calls, log,
                 urls, max_workers, data, mainpc, tasks, running, iter_left, outer,
                 nfinished, wpc, driver, html, page_data, acquired, appended>>

\* CancelledError at the await of process_url: leaving `with
\* ThreadPoolExecutor` calls shutdown(wait=True), which blocks the loop thread
\* until the fetch has finished
TaskCancelFetch(i) ==
  /\ CanRun(StepOf(i))
  /\ Cancelling
  /\ tpc[i] \in {"fetching", "fetched"}
  /\ running' = i
  /\ tpc' = [tpc EXCEPT ![i] = "shutdown"]
  /\ ready' = Tail(ready)
  /\ UNCHANGED <<sinkvars, unitvars, calls, log,
                 urls, max_workers, data, mainpc, tasks, sem_value, sem_waiters,
                 iter_left, outer, nfinished, wpc, driver, html, page_data,
                 acquired, appended>>

\* the executor thread has ended: the permit is released, the task is cancelled
TaskShutdown(i) ==
  /\ running = i
  /\ tpc[i] = "shutdown"
  /\ wpc[i] = "finished"
  /\ LET st == [val |-> sem_value,
                tp |-> [tpc EXCEPT ![i] = "cancelled"],
                rd |-> ready]
         nx == Release(st, sem_waiters, TRUE)
     IN /\ sem_value' = nx.val
        /\ tpc' = nx.tp
        /\ ready' = Append(nx.rd, CbOf(i))
  /\ running' = 0
  /\ UNCHANGED <<sinkvars, unitvars, calls, log,
                 urls, max_workers, data, mainpc, tasks, sem_waiters, iter_left,
                 outer, nfinished, wpc, driver, html, page_data, acquired, appended>>

\* every task is done: asyncio.run re-raises the exception of main()
RunFinish ==
  /\ Cancelling
  /\ running = 0
  /\ ready = <<>>
  /\ \A i \in 1..Len(tasks) : tpc[i] \in Final
  /\ mainpc' = "crashed"
  /\ UNCHANGED <<sinkvars, unitvars, calls, log,
                 urls, max_workers, data, tasks, sem_value, sem_waiters, ready,
                 running, iter_left, outer, nfinished, tpc, wpc, driver, html,
                 page_data, acquired, appended>>

\* ------------------------------------------------------------------ save_to_csv
\* self.data[0].keys(): the keys of a record, in the order parse_page sets them
HeaderOrder ==
  <<"Tytul", "Firma", "Data_opublikowania", "Wynagrodzenie", "Technologie", "Link">>

\* str() of a list of texts, as csv writes a cell that is a list: ['p', 'q']
RECURSIVE ReprItems(_)
ReprItems(l) ==
  IF l = <<>> THEN <<>>
  ELSE <<"'">> \o Head(l) \o <<"'">>
       \o (IF Len(l) > 1 THEN <<",", SP>> ELSE <<>>) \o ReprItems(Tail(l))

Repr(l) == <<"[">> \o ReprItems(l) \o <<"]">>

\* the text written for the value v of the field k
Cell(k, v) ==
  IF k = "Technologie"
  THEN (IF "list" \in DOMAIN v THEN Repr(v.list) ELSE <<v.str>>)
  ELSE IF k = "Link" THEN <<v>>
  ELSE v

\* DictWriter.writerows: one row per record, its cells in the header's order
Row(names, rec) == [k \in 1..Len(names) |-> Cell(names[k], rec[names[k]])]

\* writeheader, then writerows
Lines(d) == <<HeaderOrder>> \o [r \in 1..Len(d) |-> Row(HeaderOrder, d[r])]

\* a file that exists and holds the given lines
Written(ls) == [exists |-> TRUE, lines |-> ls]

\* What the file system does to one call: no I/O is attempted for an empty
\* aggregate; otherwise the write succeeds ("ok"), open() raises IOError and
\* the destination is left as it was ("open"), or the file is opened (and so
\* truncated) and IOError is raised after n lines have reached it ("write").
IoOutcomes(d) ==
  IF d = <<>> THEN {[kind |-> "none", n |-> 0]}
  ELSE {[kind |-> "ok", n |-> Len(d) + 1], [kind |-> "open", n |-> 0]}
       \cup {[kind |-> "write", n |-> k] : k \in 0..Len(d)}

\* faulty variant: the file is opened before the aggregate is looked at
save_to_csv_open_first(d, f, io) ==
  IF d = <<>>
  THEN [file |-> Written(<<>>), log |-> <<Warning>>, ret |-> "None", raised |-> FALSE]
  ELSE IF io.kind = "ok"
  THEN [file |-> Written(Lines(d)), log |-> <<DataSaved>>, ret |-> "None", raised |-> FALSE]
  ELSE IF io.kind = "open"
  THEN [file |-> f, log |-> <<Error>>, ret |-> "None", raised |-> FALSE]
  ELSE [file |-> Written(SubSeq(Lines(d), 1, io.n)), log |-> <<Error>>,
        ret |-> "None", raised |-> FALSE]

\* faulty variant: no except clause, the IOError leaves save_to_csv
save_to_csv_uncaught(d, f, io) ==
  IF d = <<>>
  THEN [file |-> f, log |-> <<Warning>>, ret |-> "None", raised |-> FALSE]
  ELSE IF io.kind = "ok"
  THEN [file |-> Written(Lines(d)), log |-> <<DataSaved>>, ret |-> "None", raised |-> FALSE]
  ELSE IF io.kind = "open"
  THEN [file |-> f, log |-> <<>>, ret |-> "nothing", raised |-> TRUE]
  ELSE [file |-> Written(SubSeq(Lines(d), 1, io.n)), log |-> <<>>,
        ret |-> "nothing", raised |-> TRUE]

\* BaseScraper.save_to_csv: the new file, the lines logged, the value returned
\* and whether an exception leaves the method.  Every path ends in the
\* implicit or bare return, so the value is None.
save_to_csv(d, f, io) ==
  IF d = <<>>
  THEN [file |-> f, log |-> <<Warning>>, ret |-> "None", raised |-> FALSE]
  ELSE IF io.kind = "ok"
  THEN [file |-> Written(Lines(d)), log |-> <<DataSaved>>, ret |-> "None", raised |-> FALSE]
  ELSE IF io.kind = "open"
  THEN [file |-> f, log |-> <<Error>>, ret |-> "None", raised |-> FALSE]
  ELSE [file |-> Written(SubSeq(Lines(d), 1, io.n)), log |-> <<Error>>,
        ret |-> "None", raised |-> FALSE]

\* faulty variant: process_urls is left while its tasks are still under way
main_not_joined(pc, run) == pc \in {"gather", "returned"} /\ run \in {0, -1}

\* main: `await scraper.process_urls()` has returned, save_to_csv is next
main_after_await(pc, run) == pc = "returned" /\ run = -1

\* main: scraper.save_to_csv("job_listings.csv")
SaveToCsv ==
  /\ main_after_await(mainpc, running)
  /\ \E io \in IoOutcomes(data) :
       LET r == save_to_csv(data, file, io)
       IN /\ file' = r.file
          /\ sinklog' = sinklog \o r.log
          /\ saved' = [outcome |-> "called", io |-> io, before |-> file,
                       ret |-> r.ret, raised |-> r.raised]
  /\ mainpc' = "saved"
  /\ UNCHANGED <<unitvars, calls, log,
                 urls, max_workers, data, tasks, sem_value, sem_waiters, ready,
                 running, iter_left, outer, nfinished, tpc, wpc, driver, html,
                 page_data, acquired, appended>>

Next ==
  \/ ProcessUrlsCreateTask
  \/ ProcessUrlsGather
  \/ ProcessUrlsResume
  \/ SaveToCsv
  \/ RunCancelAll
  \/ RunFinish
  \/ \E i \in TaskIds :
       \/ TaskStart(i)
       \/ TaskWoken(i)
       \/ FetchTry(i)
       \/ FetchFinally(i)
       \/ TaskResume(i)
       \/ TaskParse(i)
       \/ TaskExtend(i)
       \/ TaskExit(i)
       \/ GatherCallback(i)
       \/ TaskCancelQueued(i)
       \/ TaskCancelFetch(i)
       \/ TaskShutdown(i)

Spec == Init /\ [][Next]_vars


\* the steps taken on the event-loop thread
LoopStep ==
  \/ ProcessUrlsCreateTask
  \/ ProcessUrlsGather
  \/ ProcessUrlsResume
  \/ SaveToCsv
  \/ RunCancelAll
  \/ RunFinish
  \/ \E i \in TaskIds :
       TaskStart(i) \/ TaskWoken(i) \/ TaskResume(i) \/ TaskParse(i) \/ TaskExtend(i)
       \/ TaskExit(i) \/ GatherCallback(i) \/ TaskCancelQueued(i)
       \/ TaskCancelFetch(i) \/ TaskShutdown(i)

\* The event loop keeps running the handles that are ready, and every executor
\* thread keeps running: each render call eventually returns.
FairSpec ==
  /\ Spec
  /\ WF_vars(LoopStep)
  /\ \A i \in TaskIds : WF_vars(FetchTry(i)) /\ WF_vars(FetchFinally(i))

\* ------------------------------------------------------------------ the sink alone
\* the pipeline at rest: no URL, no task, the loop idle
PipelineIdle ==
  /\ urls = <<>>
  /\ max_workers = 1
  /\ tasks = <<>>
  /\ sem_value = max_workers
  /\ sem_waiters = <<>>
  /\ ready = <<>>
  /\ running = -1
  /\ iter_left = 0
  /\ outer = "result"
  /\ nfinished = 0
  /\ tpc = [i \in TaskIds |-> "none"]
  /\ wpc = [i \in TaskIds |-> "idle"]
  /\ driver = [i \in TaskIds |-> "none"]
  /\ html = [i \in TaskIds |-> None]
  /\ page_data = [i \in TaskIds |-> <<>>]
  /\ acquired = <<>>
  /\ appended = <<>>
  /\ calls = [i \in TaskIds |-> 0]
  /\ log = [i \in TaskIds |-> <<>>]

\* aggregates of up to MaxRows records that parse_page builds
SampleRecords == {job_data(OfferFull), job_data(OfferSparse)}
Aggregates == UNION {[1..n -> SampleRecords] : n \in 0..MaxRows}

\* a destination left behind by an earlier run
OldFile == Written(<<HeaderOrder, Row(HeaderOrder, job_data(OfferSparse))>>)

\* save_to_csv called on a scraper holding any of these aggregates, the
\* destination absent or present
SinkInit ==
  /\ PipelineIdle
  /\ mainpc = "returned"
  /\ data \in Aggregates
  /\ file \in {NoFile, OldFile}
  /\ sinklog = <<>>
  /\ saved = NotSaved
  /\ fn = "none"
  /\ arg = <<>>
  /\ ret = <<>>

SinkNext == SaveToCsv

SinkSpec == SinkInit /\ [][SinkNext]_vars

\* ------------------------------------------------------------------ the extractor alone
\* texts of up to n glyphs over an alphabet
TextsOver(A, n) == UNION {[1..k -> A] : k \in 0..n}

\* date texts: blanks, the label, a digit, a month name and a word that is no
\* month name, in any arrangement
DateTexts == TextsOver({SP, LABEL, "5", "maja", "invalidmonth"}, MaxText)

\* salary texts: blanks, a digit and the suffix phrase, in any arrangement, and
\* the text parse_page passes for a block without a salary element
SalaryTexts == TextsOver({SP, "8", SUFFIX}, MaxText) \cup {BrakWynagrodzenia}

\* listing blocks that differ in their salary element and their technology tags
UnitOffers ==
  {[OfferSparse EXCEPT !.salary = sal, !.techs = ts] :
     sal \in {NoTag, Tag(<<>>), Tag(<<"8", SP, SUFFIX>>)},
     ts \in {<<>>, <<<<SP>>>>, <<<<"p", SP>>>>,
             <<<<"p", SP>>, <<SP, "q">>>>, <<<<SP, "q">>, <<"p", SP>>>>}}

\* documents of up to MaxBlocks elements: such blocks, a block whose anchor
\* has no href, other markup
UnitDocs == TextsOver(UnitOffers \cup {OfferNoHref, Filler}, MaxBlocks)

\* one static method, or parse_page, applied to one input
UnitInit ==
  /\ PipelineIdle
  /\ mainpc = "dispatch"
  /\ data = <<>>
  /\ file = NoFile
  /\ sinklog = <<>>
  /\ saved = NotSaved
  /\ fn = "none"
  /\ arg \in {[kind |-> "date", v |-> t] : t \in DateTexts}
         \cup {[kind |-> "salary", v |-> t] : t \in SalaryTexts}
         \cup {[kind |-> "document", v |-> d] : d \in UnitDocs}
  /\ ret = <<>>

UnitFrame ==
  UNCHANGED <<sinkvars, calls, log, urls, max_workers, data, mainpc, tasks,
              sem_value, sem_waiters, ready, running, iter_left, outer,
              nfinished, tpc, wpc, driver, html, page_data, acquired, appended>>

CallConvertToIso ==
  /\ fn = "none"
  /\ arg.kind = "date"
  /\ fn' = "convert_to_iso"
  /\ ret' = convert_to_iso(arg.v)
  /\ arg' = arg
  /\ UnitFrame

CallCleanSalary ==
  /\ fn = "none"
  /\ arg.kind = "salary"
  /\ fn' = "clean_salary"
  /\ ret' = clean_salary(arg.v)
  /\ arg' = arg
  /\ UnitFrame

CallParsePage ==
  /\ fn = "none"
  /\ arg.kind = "document"
  /\ fn' = "parse_page"
  /\ ret' = parse_page(arg.v)
  /\ arg' = arg
  /\ UnitFrame

UnitNext == CallConvertToIso \/ CallCleanSalary \/ CallParsePage

UnitSpec == UnitInit /\ [][UnitNext]_vars

\* ------------------------------------------------------------------ properties
Range(s) == {s[k] : k \in 1..Len(s)}
BagOfSeq(s) == [x \in Range(s) |-> Cardinality({k \in 1..Len(s) : s[k] = x})]

AllTasks == 1..Len(urls)
Aborted == {"raised", "cancelling", "crashed"}
ActiveRenderers == {i \in TaskIds : driver[i] = "active"}

\* what extraction yields for the document rendered for task i
Extracted(i) == parse_page(html[i].doc).page_data

RECURSIVE ExtractedBag(_)
ExtractedBag(S) ==
  IF S = {} THEN EmptyBag
  ELSE LET i == CHOOSE j \in S : TRUE
       IN BagOfSeq(Extracted(i)) (+) ExtractedBag(S \ {i})

RECURSIVE ExtractedPages(_)
ExtractedPages(ids) ==
  IF ids = <<>> THEN <<>>
  ELSE Extracted(Head(ids)) \o ExtractedPages(Tail(ids))

\* URLs whose render has ended in failure
RenderFailed == {i \in AllTasks : wpc[i] = "finished" /\ ~html[i].ok}

\* C1: at any moment at most max_workers renderers are active (created by
\* fetch_page and not yet quit).
C1_RendererCap == Cardinality(ActiveRenderers) <= max_workers

C1_Witness ==
  /\ max_workers = 2
  /\ Cardinality(ActiveRenderers) = 2
  /\ \E i \in TaskIds : tpc[i] = "waiting"

\* C2: a failed render is isolated.  It never aborts the run (the run is
\* aborted only when the extraction of a rendered document raised), the task of
\* a failed render adds nothing to the aggregate and ends normally, and the
\* aggregate the run returns holds exactly the records extracted from the URLs
\* whose render did not fail.
C2_RenderFailureIsolated ==
  /\ mainpc \in Aborted =>
       \E i \in AllTasks : html[i].ok /\ parse_page(html[i].doc).raised
  /\ \A i \in RenderFailed :
       /\ i \notin Range(appended)
       /\ tpc[i] \in {"fetching", "fetched", "exit", "done", "shutdown", "cancelled"}
  /\ mainpc = "returned" =>
       /\ \A i \in RenderFailed : tpc[i] = "done"
       /\ BagOfSeq(data) = ExtractedBag(AllTasks \ RenderFailed)

C2_Witness ==
  /\ mainpc = "returned"
  /\ \E i, j, k \in AllTasks :
       /\ ~html[i].ok /\ driver[i] = "quit"
       /\ ~html[k].ok /\ driver[k] = "none"
       /\ html[j].ok /\ Extracted(j) # <<>>
  /\ data # <<>>

\* C3: for every URL list, every cap and every outcome of the renders,
\* process_urls eventually returns.
C3_EventuallyReturns == <>(mainpc = "returned")

\* the run does end in every case, by a return or by the exception, and no
\* task stays queued behind the semaphore for ever
RunEnds == <>(mainpc \in {"returned", "crashed"})
PermitNotAwaitedForever ==
  \A i \in TaskIds : (tpc[i] = "waiting") ~> (tpc[i] # "waiting")

\* C4: when process_urls has returned, a task was created for every URL and
\* every one of them has completed: none is pending, queued, rendering,
\* extracting or appending, and nothing is left for the loop to run.
C4_ReturnAfterAll ==
  mainpc = "returned" =>
    /\ Len(tasks) = Len(urls)
    /\ \A i \in AllTasks : tpc[i] = "done" /\ wpc[i] = "finished"
    /\ ready = <<>>

C4_Witness ==
  /\ mainpc = "returned"
  /\ Len(urls) >= 3
  /\ max_workers < Len(urls)
  /\ RenderFailed # {}
  /\ data # <<>>

\* C5: the merge neither loses nor duplicates a record.  At every moment the
\* aggregate is, as a multiset, the union of the extraction results of the
\* tasks that have appended, each of them once; after the run has returned it
\* is the union over all URLs whose render succeeded, whatever the order in
\* which the tasks completed.
C5_MergeIsUnion ==
  /\ BagOfSeq(data) = ExtractedBag(Range(appended))
  /\ \A x, y \in 1..Len(appended) : x # y => appended[x] # appended[y]
  /\ mainpc = "returned" =>
       BagOfSeq(data) = ExtractedBag({i \in AllTasks : html[i].ok})

C5_Witness ==
  /\ mainpc = "returned"
  /\ Len(appended) >= 2
  /\ appended[1] > appended[2]
  /\ Len(data) >= 4

\* C6: when parse_page raises for the document of one URL, that URL adds no
\* record, the run is not aborted and no other task is kept from completing.
C6_PageLevelIsolation ==
  \A i \in TaskIds :
    tpc[i] = "failed" =>
      /\ i \notin Range(appended)
      /\ mainpc \notin Aborted
      /\ \A j \in TaskIds : tpc[j] \notin {"shutdown", "cancelled"}

\* C7: a renderer is active only inside the fetch_page call of the task that
\* created it; once that call has ended, by a return or after an exception, and
\* hence once the task has completed, the renderer has been quit.
C7_RendererReleased ==
  \A i \in TaskIds :
    /\ driver[i] = "active" => wpc[i] = "finally" /\ tpc[i] \in {"fetching", "shutdown"}
    /\ wpc[i] = "finished" => driver[i] \in {"none", "quit"}
    /\ tpc[i] \in Final => driver[i] # "active"

C7_Witness ==
  \E i, j \in TaskIds :
    /\ tpc[i] = "done" /\ ~html[i].ok /\ driver[i] = "quit"
    /\ tpc[j] = "cancelled" /\ driver[j] = "quit"

\* C8: at most one task is appending to the aggregate at any moment, and it is
\* the task that holds the event-loop thread.
C8_SingleWriter ==
  \A i \in TaskIds :
    tpc[i] = "extend" =>
      /\ running = i
      /\ \A j \in TaskIds \ {i} : tpc[j] \notin {"parse", "extend", "exit", "raise"}

C8_Witness ==
  \E i, j \in TaskIds :
    /\ i # j
    /\ tpc[i] = "extend" /\ page_data[i] # <<>>
    /\ tpc[j] = "fetched" /\ Truthy(html[j])

\* C9: tasks are created in the order of the URL list and take their permits
\* in that order: the k-th task created, and the k-th to acquire, is the task
\* of urls[k].
C9_DispatchOrder ==
  /\ \A x \in 1..Len(tasks) : tasks[x] = x
  /\ \A x \in 1..Len(acquired) : acquired[x] = x

C9_Witness ==
  /\ Len(acquired) = 3
  /\ max_workers = 2
  /\ tpc[2] = "done"
  /\ tpc[1] = "fetching"

\* C10: every record of the aggregate has all six fields, and the aggregate is
\* made of whole pages: the complete record lists of the tasks that have
\* appended, in the order of their appends.
C10_RecordsComplete ==
  /\ \A k \in 1..Len(data) : DOMAIN data[k] = FieldNames
  /\ data = ExtractedPages(appended)

C10_Witness ==
  /\ \E k \in 1..Len(data) : data[k].Link = BrakLinku /\ data[k].Tytul = BrakTytulu
  /\ \E i \in TaskIds : tpc[i] = "failed" /\ i \notin Range(appended)

\* ------------------------------------------------------------------ the sink
SaveCalled == saved.outcome = "called"
SaveFailed == SaveCalled /\ saved.io.kind \in {"open", "write"}

\* C11: save_to_csv on an empty aggregate leaves the destination exactly as it
\* was (not created, not truncated, not written) and logs one warning.
C11_EmptySaveIsNoOp ==
  (SaveCalled /\ data = <<>>) =>
    /\ file = saved.before
    /\ sinklog = <<Warning>>
    /\ ~saved.raised

\* an empty aggregate was saved over a destination that already existed
C11_Witness == SaveCalled /\ data = <<>> /\ saved.before = OldFile /\ file = OldFile

\* what a successful save of the aggregate returns to its caller
ResultOnSuccess == save_to_csv(data, saved.before, [kind |-> "ok", n |-> Len(data) + 1]).ret

DateTokens(t) == Split(Strip(Remove(t, LABEL)))
KnownMonth(tok) == Len(tok) = 1 /\ tok[1] \in DOMAIN polish_months
AllDigits(tok) == \A k \in 1..Len(tok) : tok[k] \in {"0", "1", "2", "3", "4", "5", "6", "7", "8", "9"}
TwoDigits(tok) == IF Len(tok) = 1 THEN <<"0">> \o tok ELSE tok

\* C13: convert_to_iso always returns a text (nothing is raised): the date
\* sentinel for an empty or blank text, for a token count other than three once
\* the label is stripped, and for a month outside the vocabulary; otherwise
\* year-month-day, a day of digits being padded with a zero to two digits.
C13_ConvertToIso ==
  fn = "convert_to_iso" =>
    LET t == arg.v
        toks == DateTokens(t)
    IN /\ ret \in Seq(STRING)
       /\ (\A k \in 1..Len(t) : t[k] = SP) => ret = BrakDaty
       /\ Len(toks) # 3 => ret = BrakDaty
       /\ (Len(toks) = 3 /\ ~KnownMonth(toks[2])) => ret = BrakDaty
       /\ (Len(toks) = 3 /\ KnownMonth(toks[2])) =>
            LET front == toks[3] \o <<"-">> \o polish_months[toks[2][1]] \o <<"-">>
                day == SubSeq(ret, Len(front) + 1, Len(ret))
            IN /\ ret # BrakDaty
               /\ Len(ret) > Len(front)
               /\ SubSeq(ret, 1, Len(front)) = front
               /\ CharLen(day) >= 2
               /\ AllDigits(toks[1]) => day = TwoDigits(toks[1])

\* a labelled date with a one-digit day was converted
C13_Witness ==
  /\ fn = "convert_to_iso"
  /\ arg.v = <<LABEL, SP, "5", SP, "maja", SP, "5">>
  /\ ret = <<"5", "-", "0", "5", "-", "0", "5">>

EndsWithSuffix(t) == t # <<>> /\ t[Len(t)] = SUFFIX
Front(t) == SubSeq(t, 1, Len(t) - 1)
NonBlank(t) == SelectSeq(t, LAMBDA c : c # SP)

\* C14 as stated: clean_salary of the empty text is the salary sentinel, and of
\* a text ending in the suffix it is the text without the suffix and without
\* the whitespace around it.
C14_EmptyIsSentinel ==
  fn = "clean_salary" =>
    /\ arg.v = <<>> => ret = BrakWynagrodzenia
    /\ EndsWithSuffix(arg.v) => ret = Strip(Front(arg.v))

\* C14 amended: clean_salary never puts in the sentinel: of the empty text it
\* is the empty text, and the sentinel text passes through unchanged; every
\* occurrence of the suffix is taken out and the result has no blank at either
\* end, so a text with the suffix at its end only comes back without suffix and
\* surrounding blanks.  parse_page puts in the sentinel when the block has no
\* salary element, and only then.
C14_CleanSalary ==
  /\ fn = "clean_salary" =>
       /\ arg.v = <<>> => ret = <<>>
       /\ arg.v = BrakWynagrodzenia => ret = BrakWynagrodzenia
       /\ \A k \in 1..Len(ret) : ret[k] # SUFFIX
       /\ ret # <<>> => (ret[1] # SP /\ ret[Len(ret)] # SP)
       /\ NonBlank(ret) = SelectSeq(arg.v, LAMBDA c : c \notin {SP, SUFFIX})
       /\ (EndsWithSuffix(arg.v) /\ \A k \in 1..(Len(arg.v) - 1) : arg.v[k] # SUFFIX)
            => ret = Strip(Front(arg.v))
  /\ (fn = "parse_page" /\ ~ret.raised) =>
       LET offers == SelectSeq(arg.v, LAMBDA e : e.kind = "offer")
       IN \A b \in 1..Len(offers) :
            /\ offers[b].salary = NoTag => ret.page_data[b].Wynagrodzenie = BrakWynagrodzenia
            /\ offers[b].salary = Tag(<<>>) => ret.page_data[b].Wynagrodzenie = <<>>

\* clean_salary was applied to the empty text
C14_Witness == fn = "clean_salary" /\ arg.v = <<>> /\ ret = <<>>

\* C15: in every record parse_page returns, Technologie is the sentinel string
\* when the block has no technology tag (never an empty sequence), and
\* otherwise the sequence of the trimmed texts of its tags in document order.
C15_Technologies ==
  (fn = "parse_page" /\ ~ret.raised) =>
    LET offers == SelectSeq(arg.v, LAMBDA e : e.kind = "offer")
    IN /\ Len(ret.page_data) = Len(offers)
       /\ \A b \in 1..Len(offers) :
            LET tech_tags == offers[b].techs
                T == ret.page_data[b].Technologie
            IN IF tech_tags = <<>>
               THEN T = [str |-> "Brak technologii"]
               ELSE /\ DOMAIN T = {"list"}
                    /\ Len(T.list) = Len(tech_tags)
                    /\ \A k \in 1..Len(tech_tags) : T.list[k] = Strip(tech_tags[k])

\* a page with a block without tags and a block with two tags was parsed
C15_Witness ==
  /\ fn = "parse_page"
  /\ ~ret.raised
  /\ Len(ret.page_data) = 2
  /\ ret.page_data[1].Technologie = [str |-> "Brak technologii"]
  /\ ret.page_data[2].Technologie = [list |-> <<<<"p">>, <<"q">>>>]

\* ------------------------------------------------------------------ the run, continued
RunOver == mainpc \in {"returned", "saved", "crashed"}

\* C16: when the run is over every URL has exactly one log line, an INFO line
\* with its record count if its page was rendered and an ERROR line if the
\* render failed; stated for the runs in which process_urls returns.
C16_OneLogLinePerUrl ==
  mainpc \in {"returned", "saved"} =>
    \A i \in AllTasks :
      /\ Len(log[i]) = 1
      /\ html[i].ok => log[i][1].level = "INFO"
      /\ ~html[i].ok => log[i] = <<Error>>

\* C17: one task per entry of the URL list, created in list order, and at most
\* one fetch_page call per task at any moment (no retry); when process_urls
\* returns there are exactly as many tasks and exactly as many fetch_page calls
\* as entries, also when entries repeat or renders failed.
C17_OneAttemptPerEntry ==
  /\ Len(tasks) <= Len(urls)
  /\ \A k \in 1..Len(tasks) : tasks[k] = k
  /\ mainpc # "dispatch" => Len(tasks) = Len(urls)
  /\ \A i \in TaskIds :
       /\ calls[i] <= 1
       /\ calls[i] = 1 <=> wpc[i] # "idle"
       /\ i \notin Range(tasks) => calls[i] = 0
  /\ mainpc \in {"returned", "saved"} =>
       /\ Len(tasks) = Len(urls)
       /\ \A i \in AllTasks : calls[i] = 1 /\ wpc[i] = "finished"

\* the run returned for a list that repeats one URL, with a failed render in it
C17_Witness ==
  /\ mainpc = "returned"
  /\ Len(urls) >= 2
  /\ \A k \in 1..Len(urls) : urls[k] = urls[1]
  /\ \E i \in AllTasks : ~html[i].ok /\ calls[i] = 1

IsPrefix(p, q) == Len(p) <= Len(q) /\ SubSeq(q, 1, Len(p)) = p

\* C18: every step leaves the old aggregate as a prefix of the new one, and
\* once process_urls has returned no step changes it.
C18_AppendOnly ==
  [][/\ IsPrefix(data, data')
     /\ mainpc \in {"returned", "saved"} => data' = data]_vars

\* two pages were appended one after the other and the run returned
C18_Witness ==
  /\ mainpc = "saved"
  /\ Len(appended) >= 2
  /\ Len(data) > Len(page_data[appended[1]])
  /\ page_data[appended[1]] # <<>>

\* C19: when save_to_csv has been called every task of the run is done, its
\* fetch has ended and nothing is left to run; a successful write holds the
\* header and one row per record of that aggregate, in its order.
C19_SinkAfterJoin ==
  SaveCalled =>
    /\ Len(tasks) = Len(urls)
    /\ \A i \in AllTasks : tpc[i] = "done" /\ wpc[i] = "finished"
    /\ ready = <<>>
    /\ saved.io.kind = "ok" =>
         /\ file.exists
         /\ Len(file.lines) = Len(data) + 1
         /\ \A r \in 1..Len(data) : file.lines[r + 1] = Row(HeaderOrder, data[r])

\* the records of two or more tasks were written
C19_Witness ==
  /\ SaveCalled
  /\ saved.io.kind = "ok"
  /\ Len(appended) >= 2
  /\ Len(file.lines) >= 3

InsideSection == {i \in TaskIds : tpc[i] \in InSection}
HandedPermit == {i \in TaskIds : tpc[i] = "woken"}

\* C20 as stated: free permits plus tasks inside the guarded section make up
\* the limit in every state.
C20_PermitsConserved ==
  sem_value + Cardinality(InsideSection) = max_workers

\* C20 amended: free permits, plus tasks inside the guarded section, plus
\* waiters that release() has handed a permit and that have not resumed yet,
\* make up the limit in every state; a renderer is active only while its task
\* is inside the section; when the run is over all permits are free.
C20_PermitsAccounted ==
  /\ sem_value + Cardinality(InsideSection) + Cardinality(HandedPermit) = max_workers
  /\ sem_value >= 0
  /\ \A i \in TaskIds : driver[i] = "active" => i \in InsideSection
  /\ RunOver => (sem_value = max_workers /\ InsideSection = {} /\ HandedPermit = {})

\* a run that ended with an exception while a waiter had been handed a permit
C20_Witness ==
  /\ mainpc = "crashed"
  /\ sem_value = max_workers
  /\ \E i \in AllTasks : tpc[i] = "cancelled" /\ calls[i] = 0
  /\ \E i \in AllTasks : tpc[i] = "cancelled" /\ calls[i] = 1
====
